---- MODULE Spec2Model ----
(***************************************************************************)
(* Agentic RAG chatbot: the chunker, the retrieval agent's flat index and  *)
(* the coordinator's pipeline (ingest, index, retrieve, answer).           *)
(*                                                                         *)
(* A text is a sequence of one-character strings.  Python lists and        *)
(* strings are 0-based; sequences here are 1-based, so the entry the       *)
(* source calls ordinal i is position i+1 of vectors/texts/metadatas.      *)
(* chunk_index keeps the source's 0-based value.                           *)
(***************************************************************************)
EXTENDS Integers, Sequences, FiniteSets, TLC

\* ------------------------------------------------------------------ bounds
MaxLen == 4        \* longest text handed to the chunker on its own
MaxSize == 3       \* largest chunk size handed to the chunker on its own
MaxFiles == 2      \* most files in one upload
MaxIndex == 3      \* a call is made only while the index it leaves has at most this size
MaxK == 3          \* largest top_k of a direct retrieve call

\* -------------------------------------------------------- program constants
\* ingestion_agent.py:29 sets 800; the unit here is 400 characters, so that a
\* document of a few units spans several chunks.
CHUNK_SIZE == 2
\* coordinator_agent.py:62, handle_query(query, top_k=5)
TOP_K == 5

Chars == {" ", "a", "b"}
Whitespace == {" "}

Min(a, b) == IF a < b THEN a ELSE b

\* ------------------------------------------------------------------ chunker
RECURSIVE LStrip(_)
LStrip(t) ==
    IF t = <<>> THEN <<>>
    ELSE IF Head(t) \in Whitespace THEN LStrip(Tail(t)) ELSE t

RECURSIVE RStrip(_)
RStrip(t) ==
    IF t = <<>> THEN <<>>
    ELSE IF t[Len(t)] \in Whitespace THEN RStrip(SubSeq(t, 1, Len(t) - 1)) ELSE t

\* str.strip()
Strip(t) == RStrip(LStrip(t))

\* range(start, stop, step) as a sequence
RECURSIVE Range(_, _, _)
Range(start, stop, step) ==
    IF start >= stop THEN <<>>
    ELSE <<start>> \o Range(start + step, stop, step)

\* text[i:j] for 0 <= i <= j
Slice(t, i, j) == SubSeq(t, i + 1, Min(j, Len(t)))

chunk_text_unstripped(text, size) ==
    LET r == Range(0, Len(text), size)
    IN  [n \in 1..Len(r) |-> Slice(text, r[n], r[n] + size)]

chunk_text(text, size) ==
    LET t == Strip(text)
        r == Range(0, Len(t), size)
    IN  IF t = <<>> THEN <<>>
        ELSE [n \in 1..Len(r) |-> Slice(t, r[n], r[n] + size)]

\* ------------------------------------------------------------- file system
\* The uploaded files a run can name, and what parsing each one yields: a
\* text, or an exception raised by the parser.
Paths == {"a.txt", "b.txt", "bad.pdf"}

Raises(path) == path = "bad.pdf"

FileText(path) ==
    CASE path = "a.txt"    -> <<"a", "b", "b">>
      [] path = "b.txt"    -> <<" ", "b", " ">>
      [] OTHER             -> <<>>

Queries == {<<"a">>, <<"b">>}

\* every sequence over S of length 0..n
RECURSIVE SeqsUpTo(_, _)
SeqsUpTo(S, n) ==
    IF n = 0 THEN {<<>>}
    ELSE LET shorter == SeqsUpTo(S, n - 1)
         IN  shorter \cup {Append(s, x) : s \in shorter, x \in S}

\* ---------------------------------------------------------------- envelopes
\* send_mcp_message builds the envelope and prints it; trace_id is a fresh
\* opaque token and is left out.
Envelope(sender, receiver, type, payload) ==
    [sender |-> sender, receiver |-> receiver, type |-> type, payload |-> payload]

\* ---------------------------------------------------------------- ingestion
parse_text_caught(path) == IF Raises(path) THEN <<>> ELSE FileText(path)

MakeChunks(pieces, filename) ==
    [n \in 1..Len(pieces) |->
        [text |-> pieces[n], meta |-> [filename |-> filename, chunk_index |-> n - 1]]]

\* What process_document hands back: raised is whether an exception left the
\* function (the try/except around the parsers never lets one out).
process_document_uncaught(path) ==
    [raised |-> Raises(path),
     chunks |-> MakeChunks(chunk_text(FileText(path), CHUNK_SIZE), path)]

process_document(path) ==
    [raised |-> FALSE,
     chunks |-> MakeChunks(chunk_text(parse_text_caught(path), CHUNK_SIZE), path)]

DocumentParsed(path, chunks) ==
    Envelope("IngestionAgent", "RetrievalAgent", "DOCUMENT_PARSED",
             [filename |-> path, n_chunks |-> Len(chunks)])

\* ---------------------------------------------------------------- embedding
Count(t, c) == Cardinality({i \in 1..Len(t) : t[i] = c})

\* model.encode: a deterministic map from a text to a vector of fixed width
\* (a stand-in for the sentence encoder: one component per letter).
Encode(t) == <<Count(t, "a"), Count(t, "b")>>

Dot(u, v) == u[1] * v[1] + u[2] * v[2]

\* Inner product of the two vectors after normalize_L2, on a scale that keeps
\* the order of the cosines (100 * cos^2; all components are >= 0).  A zero
\* vector stays zero and scores 0 against everything.
Score(q, v) ==
    IF Dot(q, q) = 0 \/ Dot(v, v) = 0 THEN 0
    ELSE (100 * Dot(q, v) * Dot(q, v)) \div (Dot(q, q) * Dot(v, v))

\* ------------------------------------------------------------------- search
\* index.search(q, k) of the flat inner-product index: the k best ordinals by
\* descending score, padded with -1 when fewer than k vectors are stored.  The
\* order of equal scores is the library's choice: tie is "lower_first" or
\* "higher_first".
RECURSIVE ScoresOf(_, _)
ScoresOf(vecs, q) ==
    IF vecs = <<>> THEN <<>>
    ELSE <<Score(q, Head(vecs))>> \o ScoresOf(Tail(vecs), q)

Before(sc, tie, i, j) ==
    \/ sc[i] > sc[j]
    \/ /\ sc[i] = sc[j]
       /\ IF tie = "lower_first" THEN i < j ELSE i > j

\* the ordinals in rem, best first
RECURSIVE Ranked(_, _, _)
Ranked(sc, rem, tie) ==
    IF rem = {} THEN <<>>
    ELSE LET best == CHOOSE i \in rem : \A j \in rem \ {i} : Before(sc, tie, i, j)
         IN  <<best>> \o Ranked(sc, rem \ {best}, tie)

RECURSIVE Padded(_, _)
Padded(row, k) ==
    IF Len(row) >= k THEN SubSeq(row, 1, k) ELSE Padded(Append(row, -1), k)

RECURSIVE Ascending(_, _)
Ascending(from, to) == IF from > to THEN <<>> ELSE <<from>> \o Ascending(from + 1, to)

SearchUnsorted(vecs, q, k, tie) == Padded(Ascending(1, Len(vecs)), k)

Search(vecs, q, k, tie) == Padded(Ranked(ScoresOf(vecs, q), 1..Len(vecs), tie), k)

\* ---------------------------------------------------------- retrieval agent
\* build_index: the three stores after the call
ExtendVectors(vecs, chunks) == vecs \o [n \in 1..Len(chunks) |-> Encode(chunks[n].text)]

\* a store that skips a text it already holds
RECURSIVE ExtendTextsDedup(_, _)
ExtendTextsDedup(txts, chunks) ==
    IF chunks = <<>> THEN txts
    ELSE IF \E i \in 1..Len(txts) : txts[i] = Head(chunks).text
         THEN ExtendTextsDedup(txts, Tail(chunks))
         ELSE ExtendTextsDedup(Append(txts, Head(chunks).text), Tail(chunks))

ExtendTexts(txts, chunks) == txts \o [n \in 1..Len(chunks) |-> chunks[n].text]

\* a store that puts the new metas in front of the old ones
ExtendMetadatasFront(metas, chunks) == [n \in 1..Len(chunks) |-> chunks[n].meta] \o metas

ExtendMetadatas(metas, chunks) == metas \o [n \in 1..Len(chunks) |-> chunks[n].meta]

\* the loop of retrieve over zip(D[0], I[0]): hits below 0 are skipped
RECURSIVE MakeResults(_, _, _, _, _)
MakeResults(I, vecs, txts, metas, q) ==
    IF I = <<>> THEN <<>>
    ELSE IF Head(I) < 0 THEN MakeResults(Tail(I), vecs, txts, metas, q)
    ELSE <<[score |-> Score(q, vecs[Head(I)]),
            meta  |-> metas[Head(I)],
            text  |-> txts[Head(I)]]>>
         \o MakeResults(Tail(I), vecs, txts, metas, q)

\* retrieve without its first two lines: None has no search method
retrieve_unguarded(idx, vecs, txts, metas, query, top_k, tie) ==
    IF idx = "None"
    THEN [raised |-> TRUE, I |-> <<>>, results |-> <<>>]
    ELSE LET I == Search(vecs, Encode(query), top_k, tie)
         IN  [raised |-> FALSE, I |-> I,
              results |-> MakeResults(I, vecs, txts, metas, Encode(query))]

\* retrieve(query, top_k): I is the row of ordinals the search returned
\* (empty when the early return is taken), results what retrieve returns,
\* raised whether retrieve's own code let an exception out.
retrieve(idx, vecs, txts, metas, query, top_k, tie) ==
    IF idx = "None" \/ Len(vecs) = 0
    THEN [raised |-> FALSE, I |-> <<>>, results |-> <<>>]
    ELSE LET I == Search(vecs, Encode(query), top_k, tie)
         IN  [raised |-> FALSE, I |-> I,
              results |-> MakeResults(I, vecs, txts, metas, Encode(query))]

RetrievalResult(query, top) ==
    Envelope("RetrievalAgent", "LLMResponseAgent", "RETRIEVAL_RESULT",
             [retrieved_context |-> top, query |-> query])

\* ------------------------------------------------------------- answer stage
\* An answer is a label plus a body: "(Stub Answer)" with the preview of the
\* context, the fixed no-context message, "[LLM error]" for a caught failure,
\* "LLM" for whatever text the backend sent, "" when its reply had no text.
NoContextAnswer == [label |-> "(Stub Answer) No relevant context found.", body |-> <<>>]

\* llm_response_agent.py:83 takes text[:400], half a chunk
PREVIEW_LEN == 1

\* " ".join(r["text"] for r in retrieved[:3])
RECURSIVE JoinTexts(_)
JoinTexts(rs) ==
    IF rs = <<>> THEN <<>>
    ELSE IF Len(rs) = 1 THEN rs[1].text
    ELSE rs[1].text \o <<" ">> \o JoinTexts(Tail(rs))

\* None of the metric patterns matches a text over Chars: the fallback preview
extract_stub_answers(text) ==
    [label |-> "(Stub Answer)", body |-> SubSeq(text, 1, Min(PREVIEW_LEN, Len(text)))]

\* What the HTTP call to the backend can do
BackendOutcomes == {"output", "no_output", "http_error", "timeout"}

call_llm_unchecked(key, rs, outcome) ==
    IF key = "None"
    THEN [raised |-> FALSE, raw |-> "None",
          answer |-> extract_stub_answers(JoinTexts(SubSeq(rs, 1, Min(3, Len(rs)))))]
    ELSE CASE outcome = "output"    -> [raised |-> FALSE, raw |-> "data", answer |-> [label |-> "LLM", body |-> <<>>]]
           [] outcome = "no_output" -> [raised |-> FALSE, raw |-> "data", answer |-> [label |-> "", body |-> <<>>]]
           [] OTHER                 -> [raised |-> FALSE, raw |-> "None", answer |-> [label |-> "[LLM error]", body |-> <<>>]]

call_llm_uncaught(key, rs, outcome) ==
    IF key = "None"
    THEN [raised |-> FALSE, raw |-> "None",
          answer |-> IF rs # <<>>
                     THEN extract_stub_answers(JoinTexts(SubSeq(rs, 1, Min(3, Len(rs)))))
                     ELSE NoContextAnswer]
    ELSE CASE outcome = "output"    -> [raised |-> FALSE, raw |-> "data", answer |-> [label |-> "LLM", body |-> <<>>]]
           [] outcome = "no_output" -> [raised |-> FALSE, raw |-> "data", answer |-> [label |-> "", body |-> <<>>]]
           [] OTHER                 -> [raised |-> TRUE, raw |-> "None", answer |-> [label |-> "", body |-> <<>>]]

\* call_llm: raised is whether an exception left the function
call_llm(key, rs, outcome) ==
    IF key = "None"
    THEN [raised |-> FALSE, raw |-> "None",
          answer |-> IF rs # <<>>
                     THEN extract_stub_answers(JoinTexts(SubSeq(rs, 1, Min(3, Len(rs)))))
                     ELSE NoContextAnswer]
    ELSE CASE outcome = "output"    -> [raised |-> FALSE, raw |-> "data", answer |-> [label |-> "LLM", body |-> <<>>]]
           [] outcome = "no_output" -> [raised |-> FALSE, raw |-> "data", answer |-> [label |-> "", body |-> <<>>]]
           [] OTHER                 -> [raised |-> FALSE, raw |-> "None", answer |-> [label |-> "[LLM error]", body |-> <<>>]]

FinalResponse(q, answer, rs, raw) ==
    Envelope("LLMResponseAgent", "UI", "FINAL_RESPONSE",
             [query |-> q, answer |-> answer, retrieved |-> rs, llm_raw |-> raw])

\* -------------------------------------------------------------- coordinator
\* `if all_chunks:` before index_chunks
ShouldIndexAlways(chunks) == TRUE

ShouldIndexInverted(chunks) == chunks = <<>>

ShouldIndex(chunks) == chunks # <<>>

BuildIndexEnvelope(chunks) ==
    Envelope("CoordinatorAgent", "RetrievalAgent", "BUILD_INDEX", [n_chunks |-> Len(chunks)])

UserQuery(q) == Envelope("UI", "CoordinatorAgent", "USER_QUERY", [query |-> q])

\* -------------------------------------------------------------------- state
VARIABLES
    index,          \* RetrievalAgent.index: "None" or "IndexFlatIP"
    vectors,        \* the vectors stored in the flat index, in ordinal order
    texts,          \* RetrievalAgent.texts
    metadatas,      \* RetrievalAgent.metadatas
    tie_order,      \* how the search library orders equal scores
    GROQ_API_KEY,   \* "None" or "key", read once at import
    pc,             \* stage of the pipeline run
    file_paths,     \* the run's file_paths
    query,          \* the run's query
    next_file,      \* position of the ingestion loop in file_paths
    all_chunks,     \* the run's accumulated chunks
    retrieved,      \* what handle_query returned to the coordinator
    response,       \* what answer_query returned
    log,            \* envelopes printed by the call in progress or just made
    build_calls,    \* build_index calls of the call in progress or just made
    submitted,      \* history: every chunk build_index has stored, in order
    n_ingested,     \* history: chunk counts of all ingested documents, summed
    size_at_start,  \* history: index size when the current run began
    last,           \* the latest retrieve call: arguments, search row, results
    llm_outcome,    \* what the backend did in the run's call_llm, "not_called" before
    chunked         \* a chunker call on its own: text, size, output

vars == <<index, vectors, texts, metadatas, tie_order, GROQ_API_KEY, pc, file_paths,
          query, next_file, all_chunks, retrieved, response, log, build_calls,
          submitted, n_ingested, size_at_start, last, llm_outcome, chunked>>

agentVars == <<index, vectors, texts, metadatas>>
runVars == <<file_paths, query, next_file, all_chunks, retrieved, response, llm_outcome>>
envVars == <<tie_order, GROQ_API_KEY, chunked>>

NoCall == [op |-> "none", query |-> <<>>, k |-> 0, I |-> <<>>, results |-> <<>>,
           raised |-> FALSE]

NoResponse == [answer |-> [label |-> "", body |-> <<>>], retrieved |-> <<>>, returned |-> FALSE]

NoChunking == [text |-> <<>>, size |-> 1, out |-> <<>>, done |-> FALSE]

Stages == {"Idle", "Ingesting", "Indexing", "Retrieving", "Answering", "Done", "Aborted"}

\* no call is in progress: the single thread is free for the next one
Quiescent == pc = "Idle"

RECURSIVE TotalChunks(_)
TotalChunks(paths) ==
    IF paths = <<>> THEN 0
    ELSE Len(chunk_text(parse_text_caught(Head(paths)), CHUNK_SIZE)) + TotalChunks(Tail(paths))

InitAgent ==
    /\ index = "None"
    /\ vectors = <<>>
    /\ texts = <<>>
    /\ metadatas = <<>>
    /\ pc = "Idle"
    /\ file_paths = <<>>
    /\ query = <<>>
    /\ next_file = 1
    /\ all_chunks = <<>>
    /\ retrieved = <<>>
    /\ response = NoResponse
    /\ log = <<>>
    /\ build_calls = <<>>
    /\ submitted = <<>>
    /\ n_ingested = 0
    /\ size_at_start = 0
    /\ last = NoCall
    /\ llm_outcome = "not_called"

Init ==
    /\ InitAgent
    /\ tie_order \in {"lower_first", "higher_first"}
    /\ GROQ_API_KEY \in {"None", "key"}
    /\ chunked = NoChunking

\* ------------------------------------------------------------------ actions
\* build_index(chunks), the part after the vectors are computed
BuildIndex(chunks) ==
    /\ index' = "IndexFlatIP"
    /\ vectors' = ExtendVectors(vectors, chunks)
    /\ texts' = ExtendTexts(texts, chunks)
    /\ metadatas' = ExtendMetadatas(metadatas, chunks)
    /\ submitted' = submitted \o chunks

\* Encoding an empty list gives an array without a second axis; normalize_L2
\* rejects it in the library versions that check, and accepts it otherwise.
BuildMayRaise(chunks) == IF chunks = <<>> THEN {TRUE, FALSE} ELSE {FALSE}

\* app.py: the Ask button with a non-empty query, up to the start of the
\* ingestion loop
Ask(paths, q) ==
    /\ Quiescent
    /\ Len(texts) + TotalChunks(paths) <= MaxIndex
    /\ q # <<>>
    /\ pc' = "Ingesting"
    /\ file_paths' = paths
    /\ query' = q
    /\ next_file' = 1
    /\ all_chunks' = <<>>
    /\ retrieved' = <<>>
    /\ response' = NoResponse
    /\ llm_outcome' = "not_called"
    /\ log' = <<UserQuery(q)>>
    /\ build_calls' = <<>>
    /\ size_at_start' = Len(texts)
    /\ last' = NoCall
    /\ UNCHANGED <<agentVars, envVars, submitted, n_ingested>>

\* one iteration of `for p in file_paths`
ProcessDocument ==
    /\ pc = "Ingesting"
    /\ next_file <= Len(file_paths)
    /\ LET d == process_document(file_paths[next_file])
       IN  IF d.raised
           THEN /\ pc' = "Aborted"
                /\ UNCHANGED <<all_chunks, log, next_file, n_ingested>>
           ELSE /\ all_chunks' = all_chunks \o d.chunks
                /\ log' = Append(log, DocumentParsed(file_paths[next_file], d.chunks))
                /\ next_file' = next_file + 1
                /\ n_ingested' = n_ingested + Len(d.chunks)
                /\ pc' = pc
    /\ UNCHANGED <<agentVars, envVars, file_paths, query, retrieved, response, llm_outcome,
                   build_calls, submitted, size_at_start, last>>

\* the BUILD_INDEX envelope after the loop
SendBuildIndex ==
    /\ pc = "Ingesting"
    /\ next_file > Len(file_paths)
    /\ log' = Append(log, BuildIndexEnvelope(all_chunks))
    /\ pc' = "Indexing"
    /\ UNCHANGED <<agentVars, envVars, runVars, build_calls, submitted, n_ingested,
                   size_at_start, last>>

\* `if all_chunks: index_chunks(all_chunks)`
IndexChunks ==
    /\ pc = "Indexing"
    /\ IF ShouldIndex(all_chunks)
       THEN \E raised \in BuildMayRaise(all_chunks) :
              /\ build_calls' = Append(build_calls, [chunks |-> all_chunks, at |-> Len(log)])
              /\ IF raised
                 THEN /\ pc' = "Aborted"
                      /\ UNCHANGED <<agentVars, submitted>>
                 ELSE /\ BuildIndex(all_chunks)
                      /\ pc' = "Retrieving"
       ELSE /\ pc' = "Retrieving"
            /\ UNCHANGED <<agentVars, submitted, build_calls>>
    /\ UNCHANGED <<envVars, runVars, log, n_ingested, size_at_start, last>>

\* handle_query(query, top_k=5)
HandleQuery ==
    /\ pc = "Retrieving"
    /\ LET r == retrieve(index, vectors, texts, metadatas, query, TOP_K, tie_order)
       IN  /\ last' = [op |-> "handle_query", query |-> query, k |-> TOP_K, I |-> r.I,
                       results |-> r.results, raised |-> r.raised]
           /\ IF r.raised
              THEN /\ pc' = "Aborted"
                   /\ UNCHANGED <<retrieved, log>>
              ELSE /\ retrieved' = r.results
                   /\ log' = Append(log, RetrievalResult(query, r.results))
                   /\ pc' = "Answering"
    /\ UNCHANGED <<agentVars, envVars, file_paths, query, next_file, all_chunks, response,
                   llm_outcome, build_calls, submitted, n_ingested, size_at_start>>

\* answer_query(query, retrieved) and the return of the run
AnswerQuery(outcome) ==
    /\ pc = "Answering"
    /\ llm_outcome' = IF GROQ_API_KEY = "None" THEN "not_called" ELSE outcome
    /\ LET llm_resp == call_llm(GROQ_API_KEY, retrieved, outcome)
       IN  IF llm_resp.raised
           THEN /\ pc' = "Aborted"
                /\ UNCHANGED <<log, response>>
           ELSE /\ log' = Append(log, FinalResponse(query, llm_resp.answer, retrieved,
                                                    llm_resp.raw))
                /\ response' = [answer |-> llm_resp.answer, retrieved |-> retrieved,
                                returned |-> TRUE]
                /\ pc' = "Done"
    /\ UNCHANGED <<agentVars, envVars, file_paths, query, next_file, all_chunks, retrieved,
                   build_calls, submitted, n_ingested, size_at_start, last>>

\* The run's result goes back to the caller (an exception, if one left the
\* run, too); the locals of the call are gone.
Return ==
    /\ pc \in {"Done", "Aborted"}
    /\ pc' = "Idle"
    /\ file_paths' = <<>>
    /\ query' = <<>>
    /\ next_file' = 1
    /\ all_chunks' = <<>>
    /\ retrieved' = <<>>
    /\ response' = NoResponse
    /\ llm_outcome' = "not_called"
    /\ log' = <<>>
    /\ build_calls' = <<>>
    /\ last' = NoCall
    /\ UNCHANGED <<agentVars, envVars, submitted, n_ingested, size_at_start>>

\* ------------------------------------------- the retrieval agent called directly
\* chunks a caller can hand to build_index on its own
DirectChunks ==
    {<<>>,
     <<[text |-> <<"a">>, meta |-> [filename |-> "x.txt", chunk_index |-> 0]]>>}

\* index_chunks(chunks) / build_index(chunks) outside a pipeline run
BuildIndexCall(chunks) ==
    /\ Quiescent
    /\ Len(texts) + Len(chunks) <= MaxIndex
    /\ \E raised \in BuildMayRaise(chunks) :
         /\ last' = [NoCall EXCEPT !.op = "build_index", !.raised = raised]
         /\ IF raised
            THEN UNCHANGED <<agentVars, submitted, n_ingested>>
            ELSE /\ BuildIndex(chunks)
                 /\ n_ingested' = n_ingested + Len(chunks)
    /\ build_calls' = <<[chunks |-> chunks, at |-> 0]>>
    /\ log' = <<>>
    /\ UNCHANGED <<envVars, runVars, pc, size_at_start>>

\* A search for top_k = 0 over a non-empty index is refused by the library
\* versions that assert k > 0 and answered with an empty row by the others.
SearchMayRaise(k) == IF index # "None" /\ Len(vectors) > 0 /\ k = 0 THEN {TRUE, FALSE} ELSE {FALSE}

\* handle_query(query, top_k) outside a pipeline run
HandleQueryCall(q, k) ==
    /\ Quiescent
    /\ \E refused \in SearchMayRaise(k) :
         LET r == retrieve(index, vectors, texts, metadatas, q, k, tie_order)
             raised == refused \/ r.raised
         IN  /\ last' = [op |-> "handle_query", query |-> q, k |-> k,
                         I |-> IF raised THEN <<>> ELSE r.I,
                         results |-> IF raised THEN <<>> ELSE r.results,
                         raised |-> raised]
             /\ log' = IF raised THEN <<>> ELSE <<RetrievalResult(q, r.results)>>
    /\ build_calls' = <<>>
    /\ UNCHANGED <<agentVars, envVars, runVars, pc, submitted, n_ingested, size_at_start>>

Next ==
    \/ \E paths \in SeqsUpTo(Paths, MaxFiles), q \in Queries : Ask(paths, q)
    \/ ProcessDocument
    \/ SendBuildIndex
    \/ IndexChunks
    \/ HandleQuery
    \/ \E outcome \in BackendOutcomes : AnswerQuery(outcome)
    \/ Return
    \/ \E chunks \in DirectChunks : BuildIndexCall(chunks)
    \/ \E q \in Queries, k \in 0..MaxK : HandleQueryCall(q, k)

Spec == Init /\ [][Next]_vars

\* ------------------------------------------------- the chunker on its own
InitChunk ==
    /\ InitAgent
    /\ tie_order = "lower_first"
    /\ GROQ_API_KEY = "None"
    /\ \E t \in SeqsUpTo(Chars, MaxLen), s \in 1..MaxSize :
         chunked = [text |-> t, size |-> s, out |-> <<>>, done |-> FALSE]

ChunkText ==
    /\ ~chunked.done
    /\ chunked' = [chunked EXCEPT !.out = chunk_text(chunked.text, chunked.size),
                                  !.done = TRUE]
    /\ UNCHANGED <<agentVars, runVars, tie_order, GROQ_API_KEY, pc, log, build_calls,
                   submitted, n_ingested, size_at_start, last>>

NextChunk == ChunkText

SpecChunk == InitChunk /\ [][NextChunk]_vars

TypeOK ==
    /\ index \in {"None", "IndexFlatIP"}
    /\ pc \in Stages
    /\ Len(vectors) <= MaxIndex

\* =================================================================== claims
Ceil(a, b) == (a + b - 1) \div b

RECURSIVE Concat(_)
Concat(pieces) == IF pieces = <<>> THEN <<>> ELSE Head(pieces) \o Concat(Tail(pieces))

ChunksWithin == \A n \in 1..Len(chunked.out) : Len(chunked.out[n]) <= chunked.size

\* C1 as stated: the chunks of T are at most S long, concatenate to T itself,
\* and number ceil(len(T)/S), or 0 when T is empty or all whitespace.
C1_AsStated ==
    chunked.done =>
        /\ ChunksWithin
        /\ Concat(chunked.out) = chunked.text
        /\ Len(chunked.out) = IF Strip(chunked.text) = <<>> THEN 0
                              ELSE Ceil(Len(chunked.text), chunked.size)

\* C1, amended: the chunks of T are at most S long, concatenate to T with its
\* leading and trailing whitespace removed, and number ceil(len(strip(T))/S),
\* which is 0 when T is empty or all whitespace.
C1_ChunksRebuildStrippedText ==
    chunked.done =>
        /\ ChunksWithin
        /\ Concat(chunked.out) = Strip(chunked.text)
        /\ Len(chunked.out) = Ceil(Len(Strip(chunked.text)), chunked.size)

C1_Witness ==
    /\ chunked.done
    /\ Len(chunked.out) >= 2
    /\ Strip(chunked.text) # chunked.text
    /\ Len(chunked.out[Len(chunked.out)]) < chunked.size

\* C2: the index, texts and metadatas always have the same length, and between
\* calls that length is the sum of the chunk counts of every document ingested
\* so far, a file ingested twice counting twice.
C2_SizesAgree ==
    /\ Len(vectors) = Len(texts)
    /\ Len(texts) = Len(metadatas)
    /\ pc \in {"Idle", "Done", "Aborted"} => Len(texts) = n_ingested

C2_Witness ==
    /\ pc = "Done"
    /\ size_at_start > 0
    /\ Len(texts) > size_at_start
    /\ \E i \in 1..size_at_start :
         /\ texts[i] = texts[Len(texts)]
         /\ metadatas[i] = metadatas[Len(texts)]

StoresMatchSubmitted ==
    /\ Len(texts) = Len(submitted)
    /\ Len(metadatas) = Len(submitted)
    /\ Len(vectors) = Len(submitted)
    /\ \A i \in 1..Len(submitted) :
         /\ texts[i] = submitted[i].text
         /\ metadatas[i] = submitted[i].meta
         /\ vectors[i] = Encode(submitted[i].text)

\* the ordinals of a search row, the -1 padding dropped
RECURSIVE HitsOf(_)
HitsOf(I) ==
    IF I = <<>> THEN <<>>
    ELSE IF Head(I) < 0 THEN HitsOf(Tail(I)) ELSE <<Head(I)>> \o HitsOf(Tail(I))

ResultsMatchSubmitted ==
    (last.op = "handle_query" /\ ~last.raised) =>
        /\ Len(last.results) = Len(HitsOf(last.I))
        /\ \A n \in 1..Len(last.results) :
             /\ HitsOf(last.I)[n] \in 1..Len(submitted)
             /\ last.results[n].text = submitted[HitsOf(last.I)[n]].text
             /\ last.results[n].meta = submitted[HitsOf(last.I)[n]].meta

IsPrefix(a, b) == Len(a) <= Len(b) /\ SubSeq(b, 1, Len(a)) = a

AppendOnly ==
    /\ IsPrefix(texts, texts')
    /\ IsPrefix(metadatas, metadatas')
    /\ IsPrefix(vectors, vectors')

\* C3: the entry at each ordinal is the chunk submitted at that position, no
\* step removes, reorders or rewrites an existing entry, and every result of
\* retrieve carries the text and meta of the chunk submitted at the ordinal hit.
C3_OrdinalStable ==
    /\ [](StoresMatchSubmitted /\ ResultsMatchSubmitted)
    /\ [][AppendOnly]_vars

C3_Witness ==
    /\ pc = "Answering"
    /\ size_at_start > 0
    /\ Len(texts) > size_at_start
    /\ Len(last.results) >= 3
    /\ last.I[1] > 1

NoRepeat(seq) == \A n, m \in 1..Len(seq) : n # m => seq[n] # seq[m]

\* the call `last` records is a finished search over the index as it is now
Searched == last.op = "handle_query" /\ ~last.raised /\ Len(vectors) > 0 /\ last.k >= 1

ResultCount == Len(last.results) = Min(last.k, Len(vectors))

CoversAll ==
    last.k >= Len(vectors) =>
        {HitsOf(last.I)[n] : n \in 1..Len(HitsOf(last.I))} = 1..Len(vectors)

TopResults ==
    Searched =>
        /\ ResultCount
        /\ CoversAll
        /\ Len(HitsOf(last.I)) = Len(last.results)
        /\ NoRepeat(HitsOf(last.I))
        /\ \A n \in 1..Len(last.results) :
             /\ HitsOf(last.I)[n] \in 1..Len(vectors)
             /\ last.results[n].score = Score(Encode(last.query), vectors[HitsOf(last.I)[n]])
             /\ \A i \in 1..Len(vectors) :
                  \/ \E m \in 1..Len(last.results) : HitsOf(last.I)[m] = i
                  \/ Score(Encode(last.query), vectors[i]) <= last.results[n].score
        /\ \A n \in 1..(Len(last.results) - 1) :
             last.results[n].score >= last.results[n + 1].score

SameSearchSameResults ==
    (/\ last.op = "handle_query" /\ ~last.raised
     /\ last'.op = "handle_query" /\ ~last'.raised
     /\ last'.query = last.query
     /\ last'.k = last.k
     /\ vectors' = vectors)
    => (last'.I = last.I /\ last'.results = last.results)

C5_EmptyIndexQuery ==
    (last.op = "handle_query" /\ (index = "None" \/ Len(vectors) = 0)) =>
        /\ ~last.raised
        /\ pc # "Aborted"
        /\ last.results = <<>>
        /\ \E i \in 1..Len(log) :
             /\ log[i].type = "RETRIEVAL_RESULT"
             /\ log[i].payload.retrieved_context = <<>>
             /\ log[i].payload.query = last.query

C5_Witness ==
    /\ last.op = "handle_query"
    /\ index = "IndexFlatIP"
    /\ Len(vectors) = 0
    /\ last.k = 0
    /\ Len(log) = 1

PastIndexing == pc \in {"Retrieving", "Answering", "Done"}

\* positions of the envelopes of one type in the log
Positions(type) == {i \in 1..Len(log) : log[i].type = type}

BuildIndexThenCall ==
    /\ Cardinality(Positions("BUILD_INDEX")) = 1
    /\ \A i \in Positions("BUILD_INDEX") :
         /\ log[i].payload.n_chunks = Len(all_chunks)
         /\ build_calls = <<[chunks |-> all_chunks, at |-> i]>>

\* C6 as stated: a run without chunks emits no BUILD_INDEX envelope and makes
\* no build_index call; a run with chunks emits the envelope, n_chunks being
\* their number, and then calls build_index with all of them.
C6_AsStated ==
    PastIndexing =>
        IF all_chunks = <<>>
        THEN Positions("BUILD_INDEX") = {} /\ build_calls = <<>>
        ELSE BuildIndexThenCall

\* C6, amended: a run without chunks still emits the BUILD_INDEX envelope, with
\* n_chunks = 0, and only the build_index call is skipped; a run with chunks
\* emits the envelope, n_chunks being their number, and then calls build_index
\* with all of them.
C6_EnvelopeAlwaysCallIfChunks ==
    PastIndexing =>
        IF all_chunks = <<>>
        THEN /\ Cardinality(Positions("BUILD_INDEX")) = 1
             /\ \A i \in Positions("BUILD_INDEX") : log[i].payload.n_chunks = 0
             /\ build_calls = <<>>
             /\ Len(texts) = size_at_start
        ELSE BuildIndexThenCall

C6_Witness ==
    /\ pc = "Retrieving"
    /\ file_paths # <<>>
    /\ all_chunks = <<>>
    /\ Positions("BUILD_INDEX") # {}

\* the chunks a file should contribute: none when its parser fails
ExpectedChunks(path) ==
    IF Raises(path) THEN <<>>
    ELSE MakeChunks(chunk_text(FileText(path), CHUNK_SIZE), path)

RECURSIVE ExpectedAll(_)
ExpectedAll(paths) ==
    IF paths = <<>> THEN <<>>
    ELSE ExpectedChunks(Head(paths)) \o ExpectedAll(Tail(paths))

\* C7: a file whose parser fails contributes no chunk and does not end the
\* run; the chunks of the other files are accumulated in file order and are
\* the entries the run adds to the index.
C7_ParseFailureTolerated ==
    /\ pc # "Aborted"
    /\ pc \in {"Ingesting", "Indexing"} =>
         all_chunks = ExpectedAll(SubSeq(file_paths, 1, next_file - 1))
    /\ PastIndexing =>
         /\ all_chunks = ExpectedAll(file_paths)
         /\ Len(submitted) = size_at_start + Len(all_chunks)
         /\ SubSeq(submitted, size_at_start + 1, Len(submitted)) = all_chunks
         /\ SubSeq(texts, size_at_start + 1, Len(texts))
              = [n \in 1..Len(all_chunks) |-> all_chunks[n].text]

C7_Witness ==
    /\ pc = "Done"
    /\ Len(file_paths) = 2
    /\ Raises(file_paths[1])
    /\ ~Raises(file_paths[2])
    /\ Len(all_chunks) = 2
    /\ Len(texts) = size_at_start + 2

\* the envelope types a run has printed when it stands at a stage
IngestTypes(n) == <<"USER_QUERY">> \o [i \in 1..n |-> "DOCUMENT_PARSED"]

ExpectedTypes ==
    CASE pc = "Ingesting"  -> IngestTypes(next_file - 1)
      [] pc = "Indexing"   -> IngestTypes(Len(file_paths)) \o <<"BUILD_INDEX">>
      [] pc = "Retrieving" -> IngestTypes(Len(file_paths)) \o <<"BUILD_INDEX">>
      [] pc = "Answering"  -> IngestTypes(Len(file_paths))
                                \o <<"BUILD_INDEX", "RETRIEVAL_RESULT">>
      [] pc = "Done"       -> IngestTypes(Len(file_paths))
                                \o <<"BUILD_INDEX", "RETRIEVAL_RESULT", "FINAL_RESPONSE">>
      [] OTHER             -> <<>>

InRun == pc \in {"Ingesting", "Indexing", "Retrieving", "Answering", "Done"}

StagesInOrder ==
    InRun =>
        /\ Len(log) = Len(ExpectedTypes)
        /\ \A i \in 1..Len(log) : log[i].type = ExpectedTypes[i]
        /\ pc # "Ingesting" => next_file = Len(file_paths) + 1
        /\ \A i \in 1..(next_file - 1) : log[i + 1].payload.filename = file_paths[i]
        /\ pc \in {"Ingesting", "Indexing"} => Len(vectors) = size_at_start
        /\ PastIndexing => Len(vectors) = size_at_start + Len(all_chunks)
        /\ pc \in {"Answering", "Done"} =>
             /\ last.op = "handle_query"
             /\ retrieved = last.results
             /\ Len(last.results) = Min(TOP_K, Len(vectors))
        /\ (pc = "Done") = response.returned

StageStep ==
    pc' # pc =>
        <<pc, pc'>> \in {<<"Idle", "Ingesting">>, <<"Ingesting", "Indexing">>,
                         <<"Indexing", "Retrieving">>, <<"Retrieving", "Answering">>,
                         <<"Answering", "Done">>, <<"Done", "Idle">>}

\* C8: a run goes Ingesting, Indexing, Retrieving, Answering, Done, each once
\* and with no other run in between: one DOCUMENT_PARSED envelope per file,
\* in file order, before the index grows; every chunk of the run in the index
\* before the query reads it; then one RETRIEVAL_RESULT envelope, then one
\* FINAL_RESPONSE envelope, then the result.
C8_StagesStrictlyOrdered ==
    /\ []StagesInOrder
    /\ [][StageStep]_vars

C8_Witness ==
    /\ pc = "Done"
    /\ Len(file_paths) = 2
    /\ size_at_start > 0
    /\ Len(all_chunks) >= 2
    /\ Len(retrieved) > size_at_start

\* the run ended in an exception that left answer_query
AnswerRaised == pc = "Aborted" /\ last.op = "handle_query" /\ ~last.raised

\* C9 as stated: with nothing retrieved the answer is an explicit no-context
\* answer, the fixed message when no backend is configured.
C9_AsStated ==
    (pc = "Done" /\ retrieved = <<>>) => response.answer = NoContextAnswer

\* C9, amended: with nothing retrieved the answer generator does not raise;
\* with no backend configured the answer is the fixed "no relevant context
\* found" message, and with a backend configured it is whatever the backend
\* returned, or the labelled error string when the call failed.
C9_EmptyContextHandled ==
    retrieved = <<>> =>
        /\ ~AnswerRaised
        /\ pc = "Done" =>
             /\ response.returned
             /\ GROQ_API_KEY = "None" => response.answer = NoContextAnswer
             /\ GROQ_API_KEY # "None" =>
                  response.answer.label
                    = CASE llm_outcome = "output"    -> "LLM"
                        [] llm_outcome = "no_output" -> ""
                        [] OTHER                     -> "[LLM error]"

C9_Witness ==
    /\ pc = "Done"
    /\ retrieved = <<>>
    /\ GROQ_API_KEY = "None"
    /\ response.answer = NoContextAnswer

BackendFailed == llm_outcome \in {"http_error", "timeout"}

\* C10: when the backend call fails or times out the run does not crash: the
\* answer is the labelled error string, the FINAL_RESPONSE envelope is emitted
\* with it, and the run returns that answer with the retrieved results as
\* handle_query gave them.
C10_BackendFailureAnswered ==
    BackendFailed =>
        /\ pc = "Done"
        /\ response.returned
        /\ response.answer.label = "[LLM error]"
        /\ response.retrieved = last.results
        /\ log[Len(log)].type = "FINAL_RESPONSE"
        /\ log[Len(log)].payload.answer = response.answer
        /\ log[Len(log)].payload.retrieved = last.results

C10_Witness ==
    /\ pc = "Done"
    /\ llm_outcome = "timeout"
    /\ Len(response.retrieved) >= 2
    /\ response.answer.label = "[LLM error]"

\* ------------------------------------------------------- width of the vectors
\* retrieve takes the query as text and encodes it with the encoder that
\* build_index used, so no call hands the index a query vector of another
\* width than the stored ones: the case of a search with a mismatched query
\* vector has no reachable state here.
WidthsAgree ==
    \A i \in 1..Len(vectors), q \in Queries : Len(vectors[i]) = Len(Encode(q))

\* a step that makes a search leaves the stores as they were
SearchReadsOnly ==
    (last'.op = "handle_query" /\ last' # last)
        => UNCHANGED <<index, vectors, texts, metadatas>>

SearchNeverWrites == [][SearchReadsOnly]_vars

====
